---- MODULE Spec2Model ----
(***************************************************************************)
(* Model of the streaming-response relay of the interview agent:           *)
(* TranscriptForwardingService.send_transcript and ContextManagerWrapper   *)
(* (backend/backend/app/services/transcript_service.py).                   *)
(*                                                                         *)
(* Text is a sequence of one-character strings.  A fragment of the wrapped *)
(* LLM stream is a record of the four attributes __anext__ looks at.  The  *)
(* wrapper is suspended (pc # "idle") while publish_data is awaited.       *)
(* publish_data returns or raises an Exception; room.isconnected() may     *)
(* answer either way at each call.  Cancellation of the consuming task (a  *)
(* BaseException, caught by none of the handlers) is not modelled.         *)
(*                                                                         *)
(* SpecSession models PluginService with its ConditionalTTSWrapper         *)
(* (backend/backend/app/services/plugin_service.py) and the agent          *)
(* entrypoint (backend/app/agents/entrypoint.py): either callers drive the *)
(* service operations in any order, or the entrypoint coroutine runs on a  *)
(* fresh service.  A start_tavus_avatar call is suspended while the        *)
(* provider start is awaited.                                              *)
(***************************************************************************)
EXTENDS Integers, Sequences, FiniteSets, TLC

VARIABLES
    stream,             \* fragments the wrapped stream will produce (input)
    pos,                \* number of fragments fetched from the wrapped stream
    streamState,        \* wrapped stream: "open" | "ended" | "failed" | "closed"
    accumulated_text,   \* ContextManagerWrapper._accumulated_text
    last_sent_length,   \* ContextManagerWrapper._last_sent_length
    entered,            \* ContextManagerWrapper._entered
    forwarded,          \* ContextManagerWrapper._forwarded
    pc,                 \* "idle" | "anext_send" | "stop_send" | "aexit_send"
    pending,            \* fragment __anext__ will return after its send
    returned,           \* fragments returned to the consumer, in order
    outcome,            \* what the consumer last got from the wrapper
    calls,              \* log of send_transcript invocations
    wire                \* log of publish_data invocations (side channel)

\* PluginService, ConditionalTTSWrapper and the agent entrypoint
\* (backend/backend/app/services/plugin_service.py, backend/app/agents/entrypoint.py)
VARIABLES
    config,             \* which settings are present (Config.tavus, .deepgram, .elevenlabs)
    tavus_active,       \* PluginService._tavus_active
    tts_wrapper,        \* PluginService._tts_wrapper: 0 is None, else an index in wrappers
    wrappers,           \* ConditionalTTSWrapper._tavus_active of every wrapper created
    oplog,              \* one record per PluginService call, in call order
    audio,              \* one record per synthesis request the session made
    epc,                \* position of the entrypoint coroutine
    use_tavus,          \* plugins["use_tavus"] held by the entrypoint
    iterations,         \* keep-alive loop iterations of the entrypoint
    entry_end           \* what ended the entrypoint: the step that raised, or why the loop was left

\* Two chat calls made through one wrapped chat method (wrap_llm_chat)
VARIABLES
    chat_cms,           \* per chat call: the original context manager's stream and the caller's position
    chat_wrappers,      \* per ContextManagerWrapper object: its three fields
    chat_sends          \* send_transcript calls of both chat calls, in call order

relayVars == <<stream, pos, streamState, accumulated_text, last_sent_length,
               entered, forwarded, pc, pending, returned, outcome, calls, wire>>

sessionVars == <<config, tavus_active, tts_wrapper, wrappers, oplog, audio,
                 epc, use_tavus, iterations, entry_end>>

pairVars == <<chat_cms, chat_wrappers, chat_sends>>

vars == <<stream, pos, streamState, accumulated_text, last_sent_length,
          entered, forwarded, pc, pending, returned, outcome, calls, wire,
          config, tavus_active, tts_wrapper, wrappers, oplog, audio,
          epc, use_tavus, iterations, entry_end,
          chat_cms, chat_wrappers, chat_sends>>

----------------------------------------------------------------------------
(* Bounds *)

MaxFragments == 3
MaxCalls == 3
MaxChatFragments == 2
MaxIterations == 2
MaxRequests == 1

(* Program constants *)

COALESCE_THRESHOLD == 30
DATA_CHANNEL_TOPIC == "lk-chat"

----------------------------------------------------------------------------
(* Text and fragments *)

Rep(c, n) == [i \in 1..n |-> c]

Whitespace == {" ", "\t", "\n"}

\* An attribute of a fragment: missing, None, or a string.
Absent == [kind |-> "absent", val |-> <<>>]
NoneAttr == [kind |-> "none", val |-> <<>>]
StrAttr(s) == [kind |-> "str", val |-> s]

NoText == [content |-> Absent, text |-> Absent, str |-> Absent, delta |-> Absent]
FragContent(s) == [NoText EXCEPT !.content = StrAttr(s)]
FragText(s) == [NoText EXCEPT !.text = StrAttr(s)]
FragStr(s) == [NoText EXCEPT !.str = StrAttr(s)]
FragDelta(s) == [NoText EXCEPT !.delta = StrAttr(s)]

Fragments ==
    { FragDelta(<<>>),
      FragStr(<<"\n">>),
      FragContent(<<"a">>),
      FragDelta(Rep("b", 29)),
      FragText(Rep("c", 30)) }

\* Deltas of sizes [5,5,5,5,5,5,7] (spec section 8, threshold coalescing).
ThresholdScenario ==
    [i \in 1..7 |-> IF i < 7 THEN FragDelta(Rep("d", 5)) ELSE FragDelta(Rep("e", 7))]

RECURSIVE SeqsUpTo(_, _)
SeqsUpTo(S, n) ==
    IF n = 0 THEN {<<>>}
    ELSE LET shorter == SeqsUpTo(S, n - 1)
         IN shorter \cup {Append(s, x) : s \in {t \in shorter : Len(t) = n - 1}, x \in S}

Streams == SeqsUpTo(Fragments, MaxFragments) \cup {ThresholdScenario}

\* Fragments without usable text: no attribute at all, content = None,
\* content = None beside a text attribute, delta.content = "", content = "".
AnomalyFragments ==
    { NoText,
      [NoText EXCEPT !.content = NoneAttr],
      [NoText EXCEPT !.content = NoneAttr, !.text = StrAttr(<<"t">>)],
      FragDelta(<<>>),
      FragContent(<<>>) }

AnomalyStreams == SeqsUpTo(AnomalyFragments \cup {FragContent(<<"a">>)}, MaxFragments)

----------------------------------------------------------------------------
(* send_transcript *)

RECURSIVE LStrip(_)
LStrip(s) == IF s # <<>> /\ Head(s) \in Whitespace THEN LStrip(Tail(s)) ELSE s

RECURSIVE RStrip(_)
RStrip(s) ==
    IF s # <<>> /\ s[Len(s)] \in Whitespace THEN RStrip(SubSeq(s, 1, Len(s) - 1)) ELSE s

Strip(s) == RStrip(LStrip(s))

\* "if not text or not text.strip(): return"
EmptyTranscript(text) == text = <<>> \/ Strip(text) = <<>>

\* Variant: the connection is not looked at.
SkipsPublishBlankOnly(text, connected) == EmptyTranscript(text)

\* send_transcript returns before publish_data: empty text or room not connected.
SkipsPublish(text, connected) == EmptyTranscript(text) \/ ~connected

\* json.dumps escapes the characters that cannot stand in a JSON string.
JsonEscape(c) ==
    CASE c = "\n" -> "\\n"
      [] c = "\t" -> "\\t"
      [] c = "\"" -> "\\\""
      [] c = "\\" -> "\\\\"
      [] OTHER -> c

\* the escaped characters of the text, the closing.
Payload(text) ==
    <<"{\"message\": \"">> \o [i \in 1..Len(text) |-> JsonEscape(text[i])] \o <<"\"}">>

Publication(text) ==
    [topic |-> DATA_CHANNEL_TOPIC, payload |-> Payload(text), reliable |-> TRUE,
     status |-> "inflight"]

\* Variant: the exception of publish_data is not caught.
SendTranscriptPropagates(publishOutcome) == publishOutcome = "raise"

\* "except Exception as e: logger.error(...)": nothing leaves send_transcript.
SendTranscriptRaises(publishOutcome) == FALSE

----------------------------------------------------------------------------
(* ContextManagerWrapper helpers *)

\* Variant: an attribute that is None is passed over.
ExtractTextFirstString(chunk) ==
    IF chunk.content.kind = "str" THEN chunk.content
    ELSE IF chunk.text.kind = "str" THEN chunk.text
    ELSE IF chunk.str.kind = "str" THEN chunk.str
    ELSE IF chunk.delta.kind = "str" THEN chunk.delta
    ELSE StrAttr(<<>>)

\* Extraction chain of __anext__ (content, text, str, delta.content).
ExtractText(chunk) ==
    IF chunk.content.kind # "absent" THEN chunk.content
    ELSE IF chunk.text.kind # "absent" THEN chunk.text
    ELSE IF chunk.str.kind # "absent" THEN chunk.str
    ELSE IF chunk.delta.kind # "absent" THEN chunk.delta
    ELSE StrAttr(<<>>)

\* "if chunk_text:"
Truthy(attr) == attr.kind = "str" /\ attr.val # <<>>

\* Variant: plain assignment instead of "+=".
AccumulateAssign(acc, text) == text

\* "self._accumulated_text += chunk_text"
Accumulate(acc, text) == acc \o text

\* Variant: strict comparison with the threshold.
ShouldSendStrict(lastSent, newChars) == lastSent = 0 \/ newChars > 30

\* "should_send = (self._last_sent_length == 0 or new_chars >= 30)"
ShouldSend(lastSent, newChars) == lastSent = 0 \/ newChars >= COALESCE_THRESHOLD

\* Variant: comparison the wrong way round.
HasUnsentTextReversed(acc, lastSent) == acc # <<>> /\ Len(acc) < lastSent

\* "has_unsent_text = (self._accumulated_text and len(...) > self._last_sent_length)"
HasUnsentText(acc, lastSent) == acc # <<>> /\ Len(acc) > lastSent

\* "if has_unsent_text and not self._forwarded:" (StopAsyncIteration branch)
FlushOnStop(acc, lastSent, fwd) == HasUnsentText(acc, lastSent) /\ ~fwd

\* Variant: the flag is not consulted.
FlushOnExitUnguarded(acc, fwd) == acc # <<>>

\* Variant: __aexit__ forwards nothing.
FlushOnExitNever(acc, fwd) == FALSE

\* "if self._accumulated_text and not self._forwarded:" (__aexit__)
FlushOnExit(acc, fwd) == acc # <<>> /\ ~fwd

\* Variant: the number of new characters is stored.
MarkSentPending(acc, lastSent, raised) == IF raised THEN lastSent ELSE Len(acc) - lastSent

\* "self._last_sent_length = len(self._accumulated_text)" unless the send raised.
MarkSent(acc, lastSent, raised) == IF raised THEN lastSent ELSE Len(acc)

\* Variant: the return sits inside "if chunk_text:", so other fragments are lost.
ReturnedChunkIfText(chunk, text) == IF Truthy(text) THEN chunk ELSE NoText

\* "return chunk"
ReturnedChunk(chunk, text) == chunk

\* One record per send_transcript invocation; connected is what
\* room.isconnected() answers during that invocation.
Call(text, site, st, connected) ==
    [text |-> text, site |-> site, streamState |-> st,
     pendingChars |-> Len(text) - last_sent_length,
     connected |-> connected,
     published |-> ~SkipsPublish(text, connected)]

----------------------------------------------------------------------------
(* Plugin service: configuration, wrapper toggle, error classification *)

FullConfig ==
    [tavus_api_key |-> TRUE, persona_id |-> TRUE, replica_id |-> TRUE,
     deepgram_api_key |-> TRUE, elevenlabs_api_key |-> TRUE]

\* Settings present or missing: every Tavus combination with both speech keys
\* present, and every speech key combination with Tavus fully configured.
Configs ==
    {c \in [tavus_api_key : BOOLEAN, persona_id : BOOLEAN, replica_id : BOOLEAN,
            deepgram_api_key : BOOLEAN, elevenlabs_api_key : BOOLEAN] :
        \/ c.deepgram_api_key /\ c.elevenlabs_api_key
        \/ c.tavus_api_key /\ c.persona_id /\ c.replica_id}

\* Variant: the identities are not looked at.
CheckTavusConfigKeyOnly(c) == c.tavus_api_key

\* "if tavus_config.api_key and (tavus_config.persona_id or tavus_config.replica_id):"
CheckTavusConfig(c) == c.tavus_api_key /\ (c.persona_id \/ c.replica_id)

\* Variant: only the credential is checked.
StartConfigErrorKeyOnly(c) == ~c.tavus_api_key

\* The two "raise ConfigurationError" of start_tavus_avatar, ahead of its try block.
StartConfigError(c) == ~c.tavus_api_key \/ (~c.persona_id /\ ~c.replica_id)

\* initialize_plugins: the step at which it stops; fail is the constructor
\* that raises, if any.  A missing key raises in _initialize_stt / _initialize_tts.
FailStage(c, fail) ==
    IF ~c.deepgram_api_key \/ fail = "stt" THEN "stt"
    ELSE IF fail = "llm" THEN "llm"
    ELSE IF ~c.elevenlabs_api_key \/ fail = "tts" THEN "tts"
    ELSE IF fail = "vad" THEN "vad"
    ELSE "done"

\* "self._tts_wrapper = tts_plugin" comes after _initialize_tts and before _initialize_vad.
WrapperCreated(stage) == stage \in {"vad", "done"}

\* Variant: the wrapper is never told.
SetWrapperNever(ws, w, active) == ws

\* "if self._tts_wrapper: self._tts_wrapper.set_tavus_active(active)"
SetWrapper(ws, w, active) == IF w = 0 THEN ws ELSE [ws EXCEPT ![w] = active]

\* Variant: the flag stays set when the start raises.
StartEndsActiveAlways(o) == TRUE

\* "self._tavus_active = True" after the start, "= False" in the except block.
StartEndsActive(o) == o = "ok"

\* Variant: the service flag keeps its value.
InactiveFlagKept(current) == current

\* set_tavus_inactive: "self._tavus_active = False"
InactiveFlag(current) == FALSE

\* ConditionalTTSWrapper.__getattr__ hands every call to the wrapped TTS;
\* _tavus_active is not consulted.
WrapperForwards(toggle) == TRUE

\* An error message is the set of marker substrings it contains.
Messages ==
    {{}, {"out of conversational credits"}, {"Unauthorized"}, {"404"}, {"forbidden"},
     {"401", "404"}}

\* str.lower() on a marker
Lower(t) ==
    CASE t = "Unauthorized" -> "unauthorized"
      [] t = "Not Found" -> "not found"
      [] t = "Forbidden" -> "forbidden"
      [] OTHER -> t

\* '"x" in error_msg'
Contains(msg, t) == t \in msg

\* '"x" in error_msg.lower()'
ContainsLower(msg, t) == \E m \in msg : Lower(m) = t

\* Neither ConfigurationError text holds a marker.
ConfigurationErrorMessage == {}

\* 'ServiceError(f"Failed to start Tavus avatar: {str(e)}", "Tavus")'
ServiceErrorMessage(msg) == msg

\* The if / elif chain of _start_tavus_avatar.
Classify(msg) ==
    IF Contains(msg, "out of conversational credits") \/ Contains(msg, "402") THEN "credits"
    ELSE IF Contains(msg, "401") \/ ContainsLower(msg, "unauthorized") THEN "auth"
    ELSE IF Contains(msg, "404") \/ ContainsLower(msg, "not found") THEN "not_found"
    ELSE IF Contains(msg, "403") \/ ContainsLower(msg, "forbidden") THEN "forbidden"
    ELSE "unknown"

\* Variant: only ServiceError is caught.
HelperCatchesServiceError(errorType) == errorType = "ServiceError"

\* "except Exception as e:" of _start_tavus_avatar
HelperCatches(errorType) == errorType \in {"ConfigurationError", "ServiceError"}

\* Variant: an authentication failure ends the entrypoint.
AfterTavusFailureAbortOnAuth(category) == IF category = "auth" THEN "failed" ELSE "greet"

\* After the except block _start_tavus_avatar returns and the entrypoint goes on
\* to "Step 8: Generate initial greeting".
AfterTavusFailure(category) == "greet"

\* Variant: the start is attempted a second time within the call.
StartAttemptsTwice(result) == IF result = "awaiting" THEN 2 ELSE 0

\* start_tavus_avatar holds one "tavus.AvatarSession(...)" and one
\* "await avatar_plugin.start(session, room)", reached unless an earlier line raised.
StartAttempts(result) == IF result = "awaiting" THEN 1 ELSE 0

\* Variant: a failed session start is passed over.
OnCriticalErrorSkipsSessionStart(step) == IF step = "session_start" THEN "greet" ELSE "failed"

\* entrypoint: "except Exception as e: ... raise AgentError(...)" around every step.
OnCriticalError(step) == "failed"

\* Callers of start_tavus_avatar that go through _start_tavus_avatar.
ThroughHelper(via) == via \in {"helper", "entrypoint"}

\* What _start_tavus_avatar did with the outcome of start_tavus_avatar.
HelperOutcome(via, result) ==
    IF ~ThroughHelper(via) THEN "n/a"
    ELSE IF result = "awaiting" THEN "pending"
    ELSE IF result = "avatar" THEN "returned"
    ELSE IF HelperCatches(result) THEN "returned"
    ELSE "raised"

\* Record of one PluginService call.  constructed / starts count the
\* tavus.AvatarSession objects made and the avatar_plugin.start calls of this call;
\* message is the error text as _start_tavus_avatar reads it (kept for its calls only).
OpRecord(op, via, result, message, attempts) ==
    [op |-> op, via |-> via, result |-> result, message |-> message,
     constructed |-> attempts, starts |-> attempts,
     helper |-> IF op = "start_tavus_avatar" THEN HelperOutcome(via, result) ELSE "n/a",
     diag |-> IF op = "start_tavus_avatar" /\ HelperOutcome(via, result) = "returned"
                                           /\ result # "avatar"
              THEN Classify(message) ELSE "none"]

\* <<_tavus_active, wrapper flags>> when start_tavus_avatar finishes with o.
FlagsAfterStart(result, o) ==
    IF result = "ConfigurationError"
    THEN <<tavus_active, wrappers>>
    ELSE <<StartEndsActive(o), SetWrapper(wrappers, tts_wrapper, StartEndsActive(o))>>

\* set_tavus_inactive applied to the flags f.
FlagsAfterInactive(f) == <<InactiveFlag(f[1]), SetWrapper(f[2], tts_wrapper, FALSE)>>

\* The flags when the call returns to whoever made it: _start_tavus_avatar
\* calls set_tavus_inactive in its except block.
FlagsAfterCall(via, result, o) ==
    IF ThroughHelper(via) /\ result \in {"ConfigurationError", "ServiceError"}
                          /\ HelperCatches(result)
    THEN FlagsAfterInactive(FlagsAfterStart(result, o))
    ELSE FlagsAfterStart(result, o)

\* Where the entrypoint stands once _start_tavus_avatar is over.
AfterHelper(rec) ==
    IF rec.helper = "raised" THEN "failed"
    ELSE IF rec.result = "avatar" THEN "greet"
    ELSE AfterTavusFailure(rec.diag)

\* The avatar keeps running once started: nothing in the code stops it.
PrimaryRunning == \E i \in 1..Len(oplog) : oplog[i].result = "avatar"

----------------------------------------------------------------------------
(* Initial state: a freshly constructed wrapper around a stream *)

\* A ContextManagerWrapper as __init__ leaves it.
FreshWrapper == [accumulated_text |-> <<>>, last_sent_length |-> 0, forwarded |-> FALSE]

\* An original context manager over the fragments frs, nothing fetched yet.
FreshCm(frs) ==
    [stream |-> frs, pos |-> 0, pc |-> "idle", stopped |-> FALSE, exited |-> FALSE]

\* What the two chat calls stream, in different letters: the first short and
\* 30-character deltas, the second 30-character deltas only.
ChatFragments(k) ==
    IF k = 1 THEN {FragContent(<<"a">>), FragDelta(Rep("b", 30))}
    ELSE {FragStr(Rep("y", 30))}

ChatStreams(k) == SeqsUpTo(ChatFragments(k), MaxChatFragments)

\* Variant: every chat call gets the same wrapper object.
WrapperOfShared(k) == 1

\* "return ContextManagerWrapper(original_cm, self)": a new object per chat call.
WrapperOf(k) == k

\* No chat call is being followed.
NoChats ==
    /\ chat_cms = [k \in 1..2 |-> FreshCm(<<>>)]
    /\ chat_wrappers = [k \in 1..2 |-> FreshWrapper]
    /\ chat_sends = <<>>

\* PluginService.__init__ and an entrypoint that has not been scheduled.
ServiceConstructed ==
    /\ tavus_active = FALSE
    /\ tts_wrapper = 0
    /\ wrappers = <<>>
    /\ oplog = <<>>
    /\ audio = {}
    /\ epc = "off"
    /\ use_tavus = FALSE
    /\ iterations = 0
    /\ entry_end = "none"

Init ==
    /\ stream \in Streams
    /\ pos = 0
    /\ streamState = "open"
    /\ accumulated_text = <<>>
    /\ last_sent_length = 0
    /\ entered = FALSE
    /\ forwarded = FALSE
    /\ pc = "idle"
    /\ pending = NoText
    /\ returned = <<>>
    /\ outcome = "none"
    /\ calls = <<>>
    /\ wire = <<>>
    /\ config = FullConfig
    /\ ServiceConstructed
    /\ NoChats

----------------------------------------------------------------------------
(* Actions *)

\* __aenter__: enters the wrapped context manager, which may raise.
AEnter ==
    /\ pc = "idle"
    /\ UNCHANGED <<sessionVars, pairVars>>
    /\ ~entered
    /\ \E r \in {"ok", "raise"} : entered' = (r = "ok")
    /\ UNCHANGED <<stream, pos, streamState, accumulated_text, last_sent_length,
                   forwarded, pc, pending, returned, outcome, calls, wire>>

\* __anext__ when the wrapped stream yields a fragment.
ANextChunk ==
    /\ pc = "idle"
    /\ UNCHANGED <<sessionVars, pairVars>>
    /\ streamState = "open"
    /\ pos < Len(stream)
    /\ LET chunk == stream[pos + 1]
           chunk_text == ExtractText(chunk)
           acc == IF Truthy(chunk_text)
                  THEN Accumulate(accumulated_text, chunk_text.val)
                  ELSE accumulated_text
           new_chars == Len(acc) - last_sent_length
           should_send == Truthy(chunk_text) /\ ShouldSend(last_sent_length, new_chars)
       IN /\ pos' = pos + 1
          /\ accumulated_text' = acc
          /\ IF should_send
             THEN \E connected \in BOOLEAN :
                  /\ calls' = Append(calls, Call(acc, "anext", streamState, connected))
                  /\ IF SkipsPublish(acc, connected)
                     THEN /\ wire' = wire
                          /\ last_sent_length' =
                                MarkSent(acc, last_sent_length, SendTranscriptRaises("skipped"))
                          /\ returned' = Append(returned, ReturnedChunk(chunk, chunk_text))
                          /\ outcome' = "chunk"
                          /\ UNCHANGED <<pc, pending>>
                     ELSE /\ wire' = Append(wire, Publication(acc))
                          /\ pc' = "anext_send"
                          /\ pending' = chunk
                          /\ UNCHANGED <<last_sent_length, returned, outcome>>
             ELSE /\ returned' = Append(returned, ReturnedChunk(chunk, chunk_text))
                  /\ outcome' = "chunk"
                  /\ UNCHANGED <<calls, wire, last_sent_length, pc, pending>>
    /\ UNCHANGED <<stream, streamState, entered, forwarded>>

\* __anext__ when the wrapped stream raises StopAsyncIteration.
ANextStop ==
    /\ pc = "idle"
    /\ UNCHANGED <<sessionVars, pairVars>>
    /\ \/ streamState = "open" /\ pos = Len(stream)
       \/ streamState \in {"ended", "failed", "closed"}
    /\ streamState' = IF streamState = "open" THEN "ended" ELSE streamState
    /\ IF FlushOnStop(accumulated_text, last_sent_length, forwarded)
       THEN \E connected \in BOOLEAN :
            /\ calls' = Append(calls, Call(accumulated_text, "stop", streamState', connected))
            /\ IF SkipsPublish(accumulated_text, connected)
               THEN /\ wire' = wire
                    /\ last_sent_length' =
                          MarkSent(accumulated_text, last_sent_length,
                                   SendTranscriptRaises("skipped"))
                    /\ forwarded' = TRUE
                    /\ outcome' = "StopAsyncIteration"
                    /\ UNCHANGED pc
               ELSE /\ wire' = Append(wire, Publication(accumulated_text))
                    /\ pc' = "stop_send"
                    /\ UNCHANGED <<last_sent_length, forwarded, outcome>>
       ELSE /\ outcome' = "StopAsyncIteration"
            /\ UNCHANGED <<calls, wire, last_sent_length, forwarded, pc>>
    /\ UNCHANGED <<stream, pos, accumulated_text, entered, pending, returned>>

\* __anext__ when the wrapped stream raises any other error: it is not caught.
ANextError ==
    /\ pc = "idle"
    /\ UNCHANGED <<sessionVars, pairVars>>
    /\ streamState \in {"open", "failed"}
    /\ streamState' = "failed"
    /\ outcome' = "StreamError"
    /\ UNCHANGED <<stream, pos, accumulated_text, last_sent_length, entered,
                   forwarded, pc, pending, returned, calls, wire>>

\* __aexit__: exits the wrapped context manager, then forwards what was accumulated.
\* A wrapped stream whose context was exited yields no further fragment.
AExit ==
    /\ pc = "idle"
    /\ UNCHANGED <<sessionVars, pairVars>>
    /\ entered
    /\ \E r \in {"ok", "raise"} :
         IF r = "raise"
         THEN /\ outcome' = "exit_error"
              /\ UNCHANGED <<calls, wire, last_sent_length, forwarded, pc, streamState>>
         ELSE /\ streamState' = IF streamState = "open" THEN "closed" ELSE streamState
              /\ IF FlushOnExit(accumulated_text, forwarded)
                 THEN \E connected \in BOOLEAN :
                      /\ calls' = Append(calls, Call(accumulated_text, "aexit",
                                                     streamState, connected))
                      /\ IF SkipsPublish(accumulated_text, connected)
                         THEN /\ wire' = wire
                              /\ last_sent_length' =
                                    MarkSent(accumulated_text, last_sent_length,
                                             SendTranscriptRaises("skipped"))
                              /\ forwarded' = TRUE
                              /\ outcome' = "exit_ok"
                              /\ UNCHANGED pc
                         ELSE /\ wire' = Append(wire, Publication(accumulated_text))
                              /\ pc' = "aexit_send"
                              /\ UNCHANGED <<last_sent_length, forwarded, outcome>>
                 ELSE /\ outcome' = "exit_ok"
                      /\ UNCHANGED <<calls, wire, last_sent_length, forwarded, pc>>
    /\ UNCHANGED <<stream, pos, accumulated_text, entered, pending, returned>>

\* The awaited publish_data completes (or raises) and the suspended handler resumes.
PublishDataReturns ==
    /\ pc # "idle"
    /\ UNCHANGED <<sessionVars, pairVars>>
    /\ \E o \in {"ok", "raise"} :
         /\ wire' = [wire EXCEPT ![Len(wire)].status =
                        IF o = "ok" THEN "delivered" ELSE "failed"]
         /\ last_sent_length' =
               MarkSent(accumulated_text, last_sent_length, SendTranscriptRaises(o))
    /\ IF pc = "anext_send"
       THEN /\ returned' = Append(returned, ReturnedChunk(pending, ExtractText(pending)))
            /\ outcome' = "chunk"
            /\ UNCHANGED forwarded
       ELSE /\ forwarded' = TRUE
            /\ outcome' = IF pc = "stop_send" THEN "StopAsyncIteration" ELSE "exit_ok"
            /\ UNCHANGED returned
    /\ pc' = "idle"
    /\ pending' = NoText
    /\ UNCHANGED <<stream, pos, streamState, accumulated_text, entered, calls>>

Next ==
    \/ AEnter
    \/ ANextChunk
    \/ ANextStop
    \/ ANextError
    \/ AExit
    \/ PublishDataReturns

Spec == Init /\ [][Next]_vars

\* The same wrapper around a stream that carries fragments without usable text.
InitAnomaly ==
    /\ stream \in AnomalyStreams
    /\ pos = 0
    /\ streamState = "open"
    /\ accumulated_text = <<>>
    /\ last_sent_length = 0
    /\ entered = FALSE
    /\ forwarded = FALSE
    /\ pc = "idle"
    /\ pending = NoText
    /\ returned = <<>>
    /\ outcome = "none"
    /\ calls = <<>>
    /\ wire = <<>>
    /\ config = FullConfig
    /\ ServiceConstructed
    /\ NoChats

SpecAnomaly == InitAnomaly /\ [][Next]_vars

----------------------------------------------------------------------------
(* Plugin service and entrypoint: initial state and actions *)

InitSession ==
    /\ stream = <<>>
    /\ pos = 0
    /\ streamState = "open"
    /\ accumulated_text = <<>>
    /\ last_sent_length = 0
    /\ entered = FALSE
    /\ forwarded = FALSE
    /\ pc = "idle"
    /\ pending = NoText
    /\ returned = <<>>
    /\ outcome = "none"
    /\ calls = <<>>
    /\ wire = <<>>
    /\ config \in Configs
    /\ ServiceConstructed
    /\ NoChats

\* The body of initialize_plugins; it has no suspension point.
InitializePluginsCall(via, fail) ==
    LET stage == FailStage(config, fail)
    IN /\ wrappers' = IF WrapperCreated(stage) THEN Append(wrappers, FALSE) ELSE wrappers
       /\ tts_wrapper' = IF WrapperCreated(stage) THEN Len(wrappers) + 1 ELSE tts_wrapper
       /\ oplog' = Append(oplog, OpRecord("initialize_plugins", via,
                                          IF stage = "done" THEN "plugins" ELSE "ServiceError",
                                          {}, 0))
       /\ UNCHANGED <<config, tavus_active, audio, iterations>>

\* start_tavus_avatar up to its await, or up to the exception that ends it.
StartTavusAvatarCall(via, ctor, msg) ==
    LET result == IF StartConfigError(config) THEN "ConfigurationError"
                  ELSE IF ctor = "raise" THEN "ServiceError"
                  ELSE "awaiting"
        message == IF result = "ServiceError" /\ ThroughHelper(via)
                   THEN ServiceErrorMessage(msg)
                   ELSE ConfigurationErrorMessage
        f == IF result = "awaiting" THEN <<tavus_active, wrappers>>
             ELSE FlagsAfterCall(via, result, "raise")
    IN /\ oplog' = Append(oplog, OpRecord("start_tavus_avatar", via, result, message,
                                          StartAttempts(result)))
       /\ tavus_active' = f[1]
       /\ wrappers' = f[2]
       /\ UNCHANGED <<config, tts_wrapper, audio, use_tavus, iterations>>

\* A caller of the service runs initialize_plugins.
InitializePlugins ==
    /\ epc = "off"
    /\ Len(oplog) < MaxCalls
    /\ \E fail \in {"none", "stt", "llm", "tts", "vad"} : InitializePluginsCall("direct", fail)
    /\ UNCHANGED <<epc, use_tavus>>
    /\ UNCHANGED entry_end
    /\ UNCHANGED <<relayVars, pairVars>>

\* A caller runs start_tavus_avatar, directly or through _start_tavus_avatar.
StartTavusAvatar ==
    /\ epc = "off"
    /\ Len(oplog) < MaxCalls
    /\ \E via \in {"direct", "helper"}, ctor \in {"ok", "raise"} :
          \E msg \in (IF ctor = "raise" /\ ThroughHelper(via) THEN Messages ELSE {{}}) :
             StartTavusAvatarCall(via, ctor, msg)
    /\ UNCHANGED epc
    /\ UNCHANGED entry_end
    /\ UNCHANGED <<relayVars, pairVars>>

\* "await avatar_plugin.start(session, room)" returns or raises.
AvatarStartReturns ==
    /\ \E i \in {j \in 1..Len(oplog) : oplog[j].result = "awaiting"}, o \in {"ok", "raise"} :
        \E msg \in (IF o = "raise" /\ ThroughHelper(oplog[i].via) THEN Messages ELSE {{}}) :
          /\ oplog[i].result = "awaiting"
          /\ LET via == oplog[i].via
                 result == IF o = "ok" THEN "avatar" ELSE "ServiceError"
                 rec == OpRecord("start_tavus_avatar", via, result,
                                 IF o = "raise" /\ ThroughHelper(via)
                                 THEN ServiceErrorMessage(msg) ELSE {}, oplog[i].starts)
                 f == FlagsAfterCall(via, result, o)
             IN /\ oplog' = [oplog EXCEPT ![i] = rec]
                /\ tavus_active' = f[1]
                /\ wrappers' = f[2]
                /\ epc' = IF via = "entrypoint" THEN AfterHelper(rec) ELSE epc
    /\ UNCHANGED <<config, tts_wrapper, audio, use_tavus, iterations>>
    /\ UNCHANGED entry_end
    /\ UNCHANGED <<relayVars, pairVars>>

\* A caller runs set_tavus_inactive.
SetTavusInactive ==
    /\ epc = "off"
    /\ Len(oplog) < MaxCalls
    /\ LET f == FlagsAfterInactive(<<tavus_active, wrappers>>)
       IN /\ tavus_active' = f[1]
          /\ wrappers' = f[2]
    /\ oplog' = Append(oplog, OpRecord("set_tavus_inactive", "direct", "None", {}, 0))
    /\ UNCHANGED <<config, tts_wrapper, audio, epc, use_tavus, iterations>>
    /\ UNCHANGED entry_end
    /\ UNCHANGED <<relayVars, pairVars>>

\* The session asks its tts (a ConditionalTTSWrapper) to synthesize; the
\* wrapped ElevenLabs TTS may or may not come back with audio frames.
Synthesize ==
    /\ epc \in {"off", "greeting", "keepalive"}
    /\ wrappers # <<>>
    /\ Cardinality(audio) < MaxRequests
    /\ \E w \in (IF epc = "off" THEN 1..Len(wrappers) ELSE {tts_wrapper}), tts_ok \in BOOLEAN :
          audio' = audio \cup {[toggle |-> wrappers[w],
                                fallback |-> WrapperForwards(wrappers[w]) /\ tts_ok,
                                primary |-> PrimaryRunning]}
    /\ UNCHANGED <<config, tavus_active, tts_wrapper, wrappers, oplog, epc,
                   use_tavus, iterations>>
    /\ UNCHANGED entry_end
    /\ UNCHANGED <<relayVars, pairVars>>

\* entrypoint: "await ctx.connect()" and the synchronous steps after it.
EntryConnect ==
    /\ epc = "off"
    /\ oplog = <<>>
    /\ audio = {}
    /\ \E o \in {"ok", "raise"} :
          IF o = "ok"
          THEN epc' = "plugins" /\ UNCHANGED entry_end
          ELSE epc' = OnCriticalError("connect") /\ entry_end' = "connect"
    /\ UNCHANGED <<config, tavus_active, tts_wrapper, wrappers, oplog, audio,
                   use_tavus, iterations>>
    /\ UNCHANGED <<relayVars, pairVars>>

\* entrypoint: PluginService(config), initialize_plugins, AgentSession(...),
\* then "await session.start(...)" is pending.
EntryInitializePlugins ==
    /\ epc = "plugins"
    /\ \E fail \in {"none", "stt", "llm", "tts", "vad"} :
          /\ InitializePluginsCall("entrypoint", fail)
          /\ IF FailStage(config, fail) = "done"
             THEN /\ epc' = "session_start"
                  /\ use_tavus' = CheckTavusConfig(config)
                  /\ UNCHANGED entry_end
             ELSE /\ epc' = OnCriticalError("initialize_plugins")
                  /\ entry_end' = "initialize_plugins"
                  /\ UNCHANGED use_tavus
    /\ UNCHANGED <<relayVars, pairVars>>

\* entrypoint: session.start returns or raises; 'if plugins.get("use_tavus"):'
EntrySessionStartReturns ==
    /\ epc = "session_start"
    /\ \E o \in {"ok", "raise"} :
          IF o = "ok"
          THEN epc' = (IF use_tavus THEN "tavus" ELSE "greet") /\ UNCHANGED entry_end
          ELSE epc' = OnCriticalError("session_start") /\ entry_end' = "session_start"
    /\ UNCHANGED <<config, tavus_active, tts_wrapper, wrappers, oplog, audio,
                   use_tavus, iterations>>
    /\ UNCHANGED <<relayVars, pairVars>>

\* entrypoint: _start_tavus_avatar calls start_tavus_avatar.
EntryStartTavus ==
    /\ epc = "tavus"
    /\ Len(oplog) < MaxCalls
    /\ \E ctor \in {"ok", "raise"}, msg \in Messages :
          /\ StartTavusAvatarCall("entrypoint", ctor, msg)
          /\ epc' = IF oplog'[Len(oplog')].result = "awaiting"
                    THEN "tavus_wait"
                    ELSE AfterHelper(oplog'[Len(oplog')])
    /\ UNCHANGED entry_end
    /\ UNCHANGED <<relayVars, pairVars>>

\* entrypoint: "await session.generate_reply(...)" is called.
EntryGreet ==
    /\ epc = "greet"
    /\ epc' = "greeting"
    /\ UNCHANGED <<config, tavus_active, tts_wrapper, wrappers, oplog, audio,
                   use_tavus, iterations>>
    /\ UNCHANGED entry_end
    /\ UNCHANGED <<relayVars, pairVars>>

\* entrypoint: generate_reply returns or raises.
EntryGenerateReplyReturns ==
    /\ epc = "greeting"
    /\ \E o \in {"ok", "raise"} :
          IF o = "ok"
          THEN epc' = "keepalive" /\ UNCHANGED entry_end
          ELSE epc' = OnCriticalError("generate_reply") /\ entry_end' = "generate_reply"
    /\ UNCHANGED <<config, tavus_active, tts_wrapper, wrappers, oplog, audio,
                   use_tavus, iterations>>
    /\ UNCHANGED <<relayVars, pairVars>>

\* entrypoint: "while ctx.room.isconnected(): await asyncio.sleep(5)"; an
\* exception of the loop is logged and the entrypoint finishes.
EntryKeepAlive ==
    /\ epc = "keepalive"
    /\ \E o \in {"connected", "disconnected", "raise"} :
          IF o = "connected"
          THEN /\ iterations < MaxIterations
               /\ iterations' = iterations + 1
               /\ UNCHANGED <<epc, entry_end>>
          ELSE /\ epc' = "finished"
               /\ entry_end' = (IF o = "disconnected" THEN "disconnected" ELSE "loop_error")
               /\ UNCHANGED iterations
    /\ UNCHANGED <<config, tavus_active, tts_wrapper, wrappers, oplog, audio, use_tavus>>
    /\ UNCHANGED <<relayVars, pairVars>>

NextSession ==
    \/ InitializePlugins
    \/ StartTavusAvatar
    \/ AvatarStartReturns
    \/ SetTavusInactive
    \/ Synthesize
    \/ EntryConnect
    \/ EntryInitializePlugins
    \/ EntrySessionStartReturns
    \/ EntryStartTavus
    \/ EntryGreet
    \/ EntryGenerateReplyReturns
    \/ EntryKeepAlive

SpecSession == InitSession /\ [][NextSession]_vars

----------------------------------------------------------------------------
(* Two chat calls through one wrapped chat method, consumed interleaved *)

InitPair ==
    /\ stream = <<>>
    /\ pos = 0
    /\ streamState = "open"
    /\ accumulated_text = <<>>
    /\ last_sent_length = 0
    /\ entered = FALSE
    /\ forwarded = FALSE
    /\ pc = "idle"
    /\ pending = NoText
    /\ returned = <<>>
    /\ outcome = "none"
    /\ calls = <<>>
    /\ wire = <<>>
    /\ config = FullConfig
    /\ ServiceConstructed
    /\ \E s1 \in ChatStreams(1), s2 \in ChatStreams(2) :
          chat_cms = [k \in 1..2 |-> FreshCm(IF k = 1 THEN s1 ELSE s2)]
    /\ chat_wrappers = [k \in 1..2 |-> FreshWrapper]
    /\ chat_sends = <<>>

\* send_transcript(text) made by chat call k at site; after it the wrapper w
\* has the text acc, and the call is suspended when publish_data is awaited.
ChatSend(k, w, acc, site, cm) ==
    \E connected \in BOOLEAN :
       /\ chat_sends' = Append(chat_sends, [chat |-> k, text |-> acc, connected |-> connected])
       /\ IF SkipsPublish(acc, connected)
          THEN /\ chat_wrappers' =
                     [chat_wrappers EXCEPT ![w] =
                         [accumulated_text |-> acc,
                          last_sent_length |->
                              MarkSent(acc, @.last_sent_length, SendTranscriptRaises("skipped")),
                          forwarded |-> IF site = "anext" THEN @.forwarded ELSE TRUE]]
               /\ chat_cms' = [chat_cms EXCEPT ![k] = cm]
          ELSE /\ chat_wrappers' = [chat_wrappers EXCEPT ![w].accumulated_text = acc]
               /\ chat_cms' = [chat_cms EXCEPT ![k] = [cm EXCEPT !.pc = site]]

\* __anext__ of chat call k when its stream yields a fragment.
NextChunkOf(k) ==
    LET cm == chat_cms[k]
        w == WrapperOf(k)
        chunk_text == ExtractText(cm.stream[cm.pos + 1])
        acc == IF Truthy(chunk_text)
               THEN Accumulate(chat_wrappers[w].accumulated_text, chunk_text.val)
               ELSE chat_wrappers[w].accumulated_text
        last == chat_wrappers[w].last_sent_length
    IN /\ cm.pc = "idle"
       /\ ~cm.stopped /\ ~cm.exited
       /\ cm.pos < Len(cm.stream)
       /\ IF Truthy(chunk_text) /\ ShouldSend(last, Len(acc) - last)
          THEN ChatSend(k, w, acc, "anext", [cm EXCEPT !.pos = @ + 1])
          ELSE /\ chat_wrappers' = [chat_wrappers EXCEPT ![w].accumulated_text = acc]
               /\ chat_cms' = [chat_cms EXCEPT ![k].pos = @ + 1]
               /\ UNCHANGED chat_sends

\* __anext__ of chat call k when its stream raises StopAsyncIteration.
NextStopOf(k) ==
    LET cm == chat_cms[k]
        w == WrapperOf(k)
        W == chat_wrappers[w]
    IN /\ cm.pc = "idle"
       /\ ~cm.stopped /\ ~cm.exited
       /\ cm.pos = Len(cm.stream)
       /\ IF FlushOnStop(W.accumulated_text, W.last_sent_length, W.forwarded)
          THEN ChatSend(k, w, W.accumulated_text, "stop", [cm EXCEPT !.stopped = TRUE])
          ELSE /\ chat_cms' = [chat_cms EXCEPT ![k].stopped = TRUE]
               /\ UNCHANGED <<chat_wrappers, chat_sends>>

\* __aexit__ of chat call k, the wrapped exit succeeding.
ExitOf(k) ==
    LET cm == chat_cms[k]
        w == WrapperOf(k)
        W == chat_wrappers[w]
    IN /\ cm.pc = "idle"
       /\ ~cm.exited
       /\ IF FlushOnExit(W.accumulated_text, W.forwarded)
          THEN ChatSend(k, w, W.accumulated_text, "aexit", [cm EXCEPT !.exited = TRUE])
          ELSE /\ chat_cms' = [chat_cms EXCEPT ![k].exited = TRUE]
               /\ UNCHANGED <<chat_wrappers, chat_sends>>

\* publish_data awaited by chat call k returns or raises.
PublishReturnsTo(k) ==
    LET cm == chat_cms[k]
        w == WrapperOf(k)
    IN /\ cm.pc # "idle"
       /\ \E o \in {"ok", "raise"} :
             chat_wrappers' =
                [chat_wrappers EXCEPT ![w] =
                    [accumulated_text |-> @.accumulated_text,
                     last_sent_length |->
                         MarkSent(@.accumulated_text, @.last_sent_length,
                                  SendTranscriptRaises(o)),
                     forwarded |-> IF cm.pc = "anext" THEN @.forwarded ELSE TRUE]]
       /\ chat_cms' = [chat_cms EXCEPT ![k].pc = "idle"]
       /\ UNCHANGED chat_sends

ChatNextChunk == (\E k \in 1..2 : NextChunkOf(k)) /\ UNCHANGED <<relayVars, sessionVars>>

ChatNextStop == (\E k \in 1..2 : NextStopOf(k)) /\ UNCHANGED <<relayVars, sessionVars>>

ChatExit == (\E k \in 1..2 : ExitOf(k)) /\ UNCHANGED <<relayVars, sessionVars>>

ChatPublishDataReturns ==
    (\E k \in 1..2 : PublishReturnsTo(k)) /\ UNCHANGED <<relayVars, sessionVars>>

NextPair ==
    \/ ChatNextChunk
    \/ ChatNextStop
    \/ ChatExit
    \/ ChatPublishDataReturns

SpecPair == InitPair /\ [][NextPair]_vars

----------------------------------------------------------------------------
(* Observations used by the properties *)

IsPrefix(s, t) == Len(s) <= Len(t) /\ SubSeq(t, 1, Len(s)) = s

\* The concatenation, in order, of the deltas of a sequence of fragments.
RECURSIVE ConcatDeltas(_)
ConcatDeltas(frs) ==
    IF frs = <<>> THEN <<>>
    ELSE (IF Truthy(ExtractText(Head(frs))) THEN ExtractText(Head(frs)).val ELSE <<>>)
         \o ConcatDeltas(Tail(frs))

\* What a receiver reads back from a payload: the "message" field of the object.
JsonUnescape(e) ==
    CASE e = "\\n" -> "\n"
      [] e = "\\t" -> "\t"
      [] e = "\\\"" -> "\""
      [] e = "\\\\" -> "\\"
      [] OTHER -> e

JsonMessage(payload) == [i \in 1..(Len(payload) - 2) |-> JsonUnescape(payload[i + 1])]

\* The message of the last publish_data invocation (empty when there is none).
LastTransmitted == IF wire = <<>> THEN <<>> ELSE JsonMessage(wire[Len(wire)].payload)

FinalFlushes == {i \in 1..Len(calls) : calls[i].site \in {"stop", "aexit"}}

IncrementalCalls == SelectSeq(calls, LAMBDA c : c.site = "anext")

\* Fragments the wrapped stream has produced and __anext__ has finished with.
Consumed == SubSeq(stream, 1, IF pc = "anext_send" THEN pos - 1 ELSE pos)

NormalEnd == streamState = "ended" /\ pc = "idle"

\* C21: _last_sent_length stays between 0 and the length of _accumulated_text
\* and never decreases; _accumulated_text only grows by appending.
C21_AccumulatorBounds ==
    /\ [](0 <= last_sent_length /\ last_sent_length <= Len(accumulated_text))
    /\ [][/\ last_sent_length' >= last_sent_length
          /\ IsPrefix(accumulated_text, accumulated_text')]_vars

C21_Witness ==
    /\ pc = "idle"
    /\ Len(calls) >= 2
    /\ 0 < last_sent_length
    /\ last_sent_length < Len(accumulated_text)

\* C27: whenever __anext__ returns a fragment, fewer than 30 accumulated
\* characters are not yet covered by a send attempt.
C27_BoundedLag ==
    [][Len(returned') = Len(returned) + 1
          => Len(accumulated_text') - last_sent_length' < 30]_vars

C27_Witness ==
    /\ pc = "idle"
    /\ outcome = "chunk"
    /\ Len(returned) >= 2
    /\ Len(accumulated_text) - last_sent_length = 29

\* C30: an __aexit__ before the end of the stream whose wrapped exit succeeds
\* makes one send_transcript call with the whole accumulated text when that text
\* is not empty and none when it is empty, and no call follows it; when the
\* wrapped exit raises, nothing is sent and the error reaches the consumer.
C30_FlushOnEarlyExit ==
    [][/\ (pc = "idle" /\ streamState = "open" /\ streamState' = "closed")
            => IF accumulated_text # <<>>
               THEN /\ Len(calls') = Len(calls) + 1
                    /\ SubSeq(calls', 1, Len(calls)) = calls
                    /\ calls'[Len(calls')].text = accumulated_text
                    /\ calls'[Len(calls')].site = "aexit"
               ELSE calls' = calls /\ wire' = wire /\ outcome' = "exit_ok"
       /\ (pc = "idle" /\ streamState = "open" /\ outcome # "exit_error"
                       /\ outcome' = "exit_error")
            => calls' = calls /\ wire' = wire /\ forwarded' = forwarded
       /\ (streamState = "closed" \/ pc = "aexit_send") => calls' = calls]_vars

C30_Witness ==
    /\ streamState = "closed"
    /\ pc = "idle"
    /\ 0 < pos /\ pos < Len(stream)
    /\ calls # <<>>
    /\ calls[Len(calls)].site = "aexit"
    /\ calls[Len(calls)].text = accumulated_text
    /\ forwarded

\* C22: a fragment with no recognizable text, or whose extracted delta is
\* empty, leaves _accumulated_text, _last_sent_length and the final-flush flag
\* as they were, causes no send, raises nothing and is returned to the consumer.
C22_ExtractionAnomaly ==
    [][(pos' = pos + 1 /\ stream[pos + 1] \in AnomalyFragments)
          => /\ accumulated_text' = accumulated_text
             /\ last_sent_length' = last_sent_length
             /\ forwarded' = forwarded
             /\ calls' = calls
             /\ wire' = wire
             /\ pc' = "idle"
             /\ outcome' = "chunk"
             /\ returned' = Append(returned, stream[pos + 1])]_vars

C22_Witness ==
    /\ pc = "idle"
    /\ returned = <<NoText, FragContent(<<"a">>),
                    [NoText EXCEPT !.content = NoneAttr, !.text = StrAttr(<<"t">>)]>>
    /\ accumulated_text = <<"a">>
    /\ Len(calls) = 1
    /\ outcome = "chunk"

\* The text chat call k has streamed so far, and all it will stream.
OwnText(k) == ConcatDeltas(SubSeq(chat_cms[k].stream, 1, chat_cms[k].pos))

FullText(k) == ConcatDeltas(chat_cms[k].stream)

\* C23: with two chat calls of one wrapped chat method consumed interleaved,
\* each wrapper holds exactly its own stream's deltas, every snapshot sent for
\* a chat call is made of that call's deltas only, and a step of one chat call
\* leaves the other wrapper's text, sent length and final-flush flag alone.
C23_PerStreamIsolation ==
    /\ [](/\ \A k \in 1..2 : chat_wrappers[k].accumulated_text = OwnText(k)
          /\ \A i \in 1..Len(chat_sends) :
                IsPrefix(chat_sends[i].text, FullText(chat_sends[i].chat)))
    /\ [][\A k \in 1..2 :
             chat_cms'[k] = chat_cms[k] => chat_wrappers'[k] = chat_wrappers[k]]_vars

C23_Witness ==
    /\ Len(chat_sends) >= 4
    /\ chat_sends[1].chat = 1
    /\ chat_sends[2].chat = 2
    /\ chat_sends[3].chat = 1
    /\ chat_sends[4].chat = 2
    /\ Len(chat_sends[3].text) = 31
    /\ chat_wrappers[1].forwarded
    /\ chat_wrappers[2].forwarded
    /\ \A i \in 1..4 : chat_sends[i].connected

----------------------------------------------------------------------------
(* Properties *)

\* C1: every snapshot passed to send_transcript is a prefix of every snapshot
\* passed later, so the snapshot lengths never decrease.
C1_PrefixMonotonic ==
    \A i, j \in 1..Len(calls) :
        i < j => /\ IsPrefix(calls[i].text, calls[j].text)
                 /\ Len(calls[i].text) <= Len(calls[j].text)

C1_Witness ==
    /\ Len(calls) >= 3
    /\ calls[1].site = "anext" /\ calls[2].site = "anext" /\ calls[3].site = "aexit"
    /\ Len(calls[1].text) < Len(calls[2].text)

C3_AtMostOneFinalFlush ==
    /\ [](Cardinality(FinalFlushes) <= 1)
    /\ [][forwarded => forwarded']_vars

C3_Witness ==
    /\ Cardinality(FinalFlushes) = 1
    /\ \E i \in FinalFlushes : calls[i].site = "stop"
    /\ forwarded
    /\ outcome = "exit_ok"

\* C4: a stream that ended and is then exited with nothing unsent performs no
\* further send; deltas [5,5,5,5,5,5,7] give exactly two sends over the lifecycle.
C4_NoRedundantFinalSend ==
    /\ \A i \in 1..Len(calls) :
          (calls[i].site = "aexit" /\ calls[i].streamState = "ended")
             => calls[i].pendingChars > 0
    /\ (stream = ThresholdScenario /\ NormalEnd /\ outcome = "exit_ok")
          => Len(calls) = 2

\* C5: when the wrapped stream's error has reached the caller of __anext__, text
\* that was unsent has been flushed by one final send of the whole text.
C5_ErrorPathFlush ==
    outcome = "StreamError" =>
        \/ forwarded
        \/ ~(Len(accumulated_text) > last_sent_length)

\* C6: with the room connected, the first fragment that makes the text non-empty
\* has its snapshot on the side channel before the next fragment is fetched.
C6_ImmediateFirstEmit ==
    (pc = "idle" /\ accumulated_text # <<>>) =>
        /\ calls # <<>>
        /\ calls[1].connected =>
              /\ wire # <<>>
              /\ JsonMessage(wire[1].payload) = calls[1].text

\* C7: after the first emit, a fragment triggers an emit iff its delta is
\* non-empty and at least 30 characters are pending after appending it; the
\* deltas [5,5,5,5,5,5,7] emit at cumulative lengths 5 and 37 only.
C7_ThresholdCoalescing ==
    /\ [][(pos' = pos + 1 /\ IncrementalCalls # <<>>) =>
             ((Len(calls') = Len(calls) + 1) <=>
                 (/\ Len(accumulated_text') > Len(accumulated_text)
                  /\ Len(accumulated_text') - last_sent_length >= 30))]_vars
    /\ []((stream = ThresholdScenario /\ pos = 7 /\ FinalFlushes = {}) =>
             /\ Len(IncrementalCalls) = 2
             /\ Len(IncrementalCalls[1].text) = 5
             /\ IncrementalCalls[2].text = ConcatDeltas(stream)
             /\ Len(IncrementalCalls[2].text) = 37)

C7_Witness ==
    /\ stream = ThresholdScenario
    /\ pos = 7
    /\ pc = "idle"
    /\ Len(calls) = 2
    /\ last_sent_length = 37

\* C8: whatever the publishes did, the consumer has received exactly the fragments
\* the wrapped stream produced, in order, and every result of __anext__ is a
\* fragment, the end of the stream or the stream's own error.
C8_PassThrough ==
    /\ returned = Consumed
    /\ outcome \in {"none", "chunk", "StopAsyncIteration", "StreamError",
                    "exit_ok", "exit_error"}

C8_Witness ==
    /\ Len(returned) = 3
    /\ Len(wire) >= 2
    /\ wire[1].status = "failed"
    /\ \E i \in 1..Len(calls) : ~calls[i].connected

\* C9: no handler of the wrapper is suspended on a publish that has not completed.
C9_FireAndForget ==
    \A i \in 1..Len(wire) : wire[i].status = "inflight" => pc = "idle"

\* C10: whenever an emit completes, _last_sent_length is the length of the text,
\* whatever the publish did; so two successive incremental snapshots are at least
\* 30 characters apart.
C10_MarkSentRegardless ==
    /\ [][((pc # "idle" \/ Len(calls') > Len(calls)) /\ pc' = "idle") =>
             last_sent_length' = Len(accumulated_text')]_vars
    /\ [](\A i \in 1..(Len(IncrementalCalls) - 1) :
             Len(IncrementalCalls[i + 1].text) - Len(IncrementalCalls[i].text) >= 30)

C10_Witness ==
    /\ pc = "idle"
    /\ Len(wire) = 1
    /\ wire[1].status = "failed"
    /\ Len(calls) = 1
    /\ pos = 3
    /\ Len(accumulated_text) > last_sent_length
    /\ last_sent_length = Len(calls[1].text)

\* C17: a send_transcript call that finds the room not connected transmits
\* nothing, returns normally to its caller, and nothing of it is transmitted
\* later: every message on the wire is the text of a call that found the room
\* connected.
C17_NoOpWhenDisconnected ==
    /\ [][(Len(calls') = Len(calls) + 1 /\ ~calls'[Len(calls')].connected) =>
             /\ wire' = wire
             /\ pc' = "idle"
             /\ last_sent_length' = Len(accumulated_text')]_vars
    /\ [](/\ Len(wire) <= Cardinality({i \in 1..Len(calls) : calls[i].connected})
          /\ \A k \in 1..Len(wire) :
                \E i \in 1..Len(calls) :
                    calls[i].connected /\ JsonMessage(wire[k].payload) = calls[i].text)

C17_Witness ==
    /\ Len(calls) >= 2
    /\ ~calls[1].connected
    /\ Strip(calls[1].text) # <<>>
    /\ calls[2].connected
    /\ Len(wire) = 1
    /\ pc = "idle"

ConnectedCalls == SelectSeq(calls, LAMBDA c : c.connected)

\* C18: every send_transcript call made while the room is connected
\* gives exactly one transmission on "lk-chat" whose message is the whole text.
C18_OneTransmissionPerConnectedSend ==
    /\ Len(wire) = Len(ConnectedCalls)
    /\ \A k \in 1..Len(wire) :
          /\ wire[k].topic = "lk-chat"
          /\ JsonMessage(wire[k].payload) = ConnectedCalls[k].text

(* Plugin service and entrypoint: observations *)

\* The calls of the log that are start_tavus_avatar calls.
StartCalls == {i \in 1..Len(oplog) : oplog[i].op = "start_tavus_avatar"}

\* Call i of the next state began or finished in this step.
Touched(i) == i > Len(oplog) \/ oplog'[i] # oplog[i]

\* The suppression flag of the wrapper the service holds.
Suppression == wrappers[tts_wrapper]

\* initialize_plugins ran first, made the wrapper, and did not run again.
InitializedOnce ==
    /\ oplog # <<>>
    /\ oplog[1].op = "initialize_plugins"
    /\ Len(wrappers) = 1
    /\ tts_wrapper = 1
    /\ \A i \in 2..Len(oplog) : oplog[i].op # "initialize_plugins"

----------------------------------------------------------------------------
(* Claims about the plugin service and the entrypoint *)

\* C11: once plugins were initialized, after any sequence of start_tavus_avatar
\* calls (whatever their outcome) and set_tavus_inactive calls, the wrapper's
\* suppression flag is true exactly when PluginService._tavus_active is true.
C11_ArbitrationFallbackLaw == InitializedOnce => (Suppression <=> tavus_active)

C11_Witness ==
    /\ InitializedOnce
    /\ Len(oplog) = 3
    /\ oplog[2].result = "ServiceError"
    /\ oplog[3].result = "avatar"
    /\ tavus_active
    /\ Suppression

\* C12: with credential and an identity configured and a wrapper in place, a
\* start_tavus_avatar call whose provider start succeeds ends with the service
\* active, suppression true and the avatar returned; one whose construction or
\* start raises ends with the service inactive, suppression false and a
\* ServiceError; while it waits for the provider it changes neither flag.
C12_StartupTransitions ==
    [][\A i \in 1..Len(oplog') :
          (/\ oplog'[i].op = "start_tavus_avatar"
           /\ Touched(i)
           /\ config.tavus_api_key /\ (config.persona_id \/ config.replica_id)
           /\ tts_wrapper # 0)
          => \/ /\ oplog'[i].result = "avatar"
                /\ tavus_active' /\ Suppression'
             \/ /\ oplog'[i].result = "ServiceError"
                /\ ~tavus_active' /\ ~Suppression'
             \/ /\ oplog'[i].result = "awaiting"
                /\ tavus_active' = tavus_active /\ wrappers' = wrappers]_vars

C12_Witness ==
    /\ InitializedOnce
    /\ Len(oplog) = 3
    /\ oplog[2].via = "direct" /\ oplog[2].result = "ServiceError" /\ oplog[2].starts = 1
    /\ oplog[3].via = "direct" /\ oplog[3].result = "avatar"
    /\ tavus_active
    /\ Suppression

\* C13: with the Tavus credential missing, or both persona and replica identity
\* missing, start_tavus_avatar ends with a ConfigurationError, no avatar session
\* is constructed or started, and both flags are as they were (so the service
\* is never active and no wrapper is ever suppressed under such a configuration).
C13_ConfigurationErrorFirst ==
    /\ [][\A i \in 1..Len(oplog') :
             (/\ oplog'[i].op = "start_tavus_avatar"
              /\ Touched(i)
              /\ ~config.tavus_api_key \/ (~config.persona_id /\ ~config.replica_id))
             => /\ oplog'[i].result = "ConfigurationError"
                /\ oplog'[i].constructed = 0
                /\ oplog'[i].starts = 0
                /\ tavus_active' = tavus_active
                /\ wrappers' = wrappers
                /\ tts_wrapper' = tts_wrapper]_vars
    /\ []((~config.tavus_api_key \/ (~config.persona_id /\ ~config.replica_id))
            => /\ ~tavus_active
               /\ \A w \in 1..Len(wrappers) : ~wrappers[w])

C13_Witness ==
    /\ config.tavus_api_key /\ ~config.persona_id /\ ~config.replica_id
    /\ InitializedOnce
    /\ Len(oplog) = 2
    /\ oplog[2].via = "direct"
    /\ oplog[2].result = "ConfigurationError"
    /\ ~tavus_active
    /\ ~Suppression

\* This step is a set_tavus_inactive call.
SetInactiveStep ==
    /\ Len(oplog') = Len(oplog) + 1
    /\ oplog'[Len(oplog')].op = "set_tavus_inactive"

\* C14: set_tavus_inactive, from any state, returns normally and leaves the
\* service inactive and the wrapper (if any) unsuppressed; called in a state
\* that is already so it changes nothing, so twice is the same as once.
C14_SetInactiveUnconditional ==
    [][SetInactiveStep =>
          /\ oplog'[Len(oplog')].result = "None"
          /\ ~tavus_active'
          /\ tts_wrapper' = tts_wrapper
          /\ tts_wrapper # 0 => ~Suppression'
          /\ (~tavus_active /\ (tts_wrapper # 0 => ~Suppression))
                => (tavus_active' = tavus_active /\ wrappers' = wrappers)]_vars

C14_Witness ==
    /\ InitializedOnce
    /\ Len(oplog) = 3
    /\ oplog[2].result = "avatar"
    /\ oplog[3].op = "set_tavus_inactive"
    /\ ~tavus_active
    /\ ~Suppression

\* C15: whatever start_tavus_avatar ends with, _start_tavus_avatar returns
\* normally; the entrypoint leaves its Tavus step only towards the greeting,
\* with the service inactive and the wrapper unsuppressed when the start failed,
\* and from there it requests the greeting.
C15_PrimaryFailureNeverAborts ==
    /\ [](\A i \in 1..Len(oplog) : oplog[i].helper # "raised")
    /\ [][(epc \in {"tavus", "tavus_wait"} /\ epc' # epc) =>
             /\ epc' \in {"tavus_wait", "greet"}
             /\ (epc' = "greet" /\ ~PrimaryRunning') => (~tavus_active' /\ ~Suppression')]_vars
    /\ [][(epc = "greet" /\ epc' # epc) => epc' = "greeting"]_vars

C15_Witness ==
    /\ epc = "greeting"
    /\ Len(oplog) = 2
    /\ oplog[2].via = "entrypoint"
    /\ oplog[2].result = "ServiceError"
    /\ oplog[2].helper = "returned"
    /\ ~tavus_active
    /\ ~Suppression

\* C16: a synthesis request that reaches the wrapper while its toggle is true
\* produces no fallback audio, and no request is voiced by both providers.
C16_ExactlyOneAudible ==
    \A a \in audio :
        /\ a.toggle => ~a.fallback
        /\ ~(a.primary /\ a.fallback)

\* C19: a start_tavus_avatar call makes at most one avatar session and starts
\* it at most once, and a session run by the entrypoint holds at most one
\* start_tavus_avatar call: after a failed start the provider is not started again.
C19_SingleAttempt ==
    /\ \A i \in StartCalls : oplog[i].constructed <= 1 /\ oplog[i].starts <= 1
    /\ epc # "off" => Cardinality(StartCalls) <= 1

C19_Witness ==
    /\ epc = "finished"
    /\ iterations > 0
    /\ \E i \in StartCalls :
          /\ oplog[i].via = "entrypoint"
          /\ oplog[i].result = "ServiceError"
          /\ oplog[i].starts = 1

\* The log entry without the two fields that depend on the error text.
Undiagnosed(rec) == [rec EXCEPT !.diag = "none", !.message = {}]

\* C20: when _start_tavus_avatar has handled a failure, everything but the
\* logged diagnosis is fixed by the state before: service inactive, wrapper
\* unsuppressed, nothing else touched, and the entrypoint at the greeting.
C20_ClassificationDiagnosticOnly ==
    [][\A i \in 1..Len(oplog') :
          (oplog'[i].diag # "none" /\ Touched(i))
          => /\ ~tavus_active'
             /\ wrappers' = IF tts_wrapper = 0 THEN wrappers
                            ELSE [wrappers EXCEPT ![tts_wrapper] = FALSE]
             /\ <<config', tts_wrapper', audio', use_tavus', iterations'>>
                   = <<config, tts_wrapper, audio, use_tavus, iterations>>
             /\ Undiagnosed(oplog'[i]).result \in {"ConfigurationError", "ServiceError"}
             /\ epc' = IF oplog'[i].via = "entrypoint" THEN "greet" ELSE epc]_vars

C20_Witness ==
    /\ epc = "greeting"
    /\ Len(oplog) = 2
    /\ oplog[2].via = "entrypoint"
    /\ oplog[2].message = {"401", "404"}
    /\ oplog[2].diag = "auth"
    /\ ~tavus_active

\* C24: initialize_plugins ends with a ConfigurationError when the Deepgram or
\* the ElevenLabs key is missing, and with a ServiceError when it fails otherwise.
C24_InitializeErrorContract ==
    \A i \in 1..Len(oplog) :
        oplog[i].op = "initialize_plugins" =>
            IF ~config.deepgram_api_key \/ ~config.elevenlabs_api_key
            THEN oplog[i].result = "ConfigurationError"
            ELSE oplog[i].result \in {"plugins", "ServiceError"}

\* C28: after any calls of initialize_plugins, start_tavus_avatar and
\* set_tavus_inactive in any order, the service records Tavus as active exactly
\* when it holds a wrapper and that wrapper is suppressed.
C28_FlagAgreementAcrossReinit ==
    /\ tavus_active => (tts_wrapper # 0 /\ Suppression)
    /\ tts_wrapper # 0 => (Suppression <=> tavus_active)

\* C29: _check_tavus_config answers true exactly when the credential and one of
\* the two identities are present, which is exactly when start_tavus_avatar's
\* checks pass; so a start made by the entrypoint never ends with a
\* ConfigurationError, and an entrypoint without Tavus settings makes no start.
C29_ConfigCheckConsistency ==
    LET configured == config.tavus_api_key /\ (config.persona_id \/ config.replica_id)
    IN /\ CheckTavusConfig(config) <=> configured
       /\ StartConfigError(config) <=> ~configured
       /\ use_tavus => configured
       /\ \A i \in StartCalls :
             oplog[i].via = "entrypoint" =>
                (configured /\ oplog[i].result # "ConfigurationError")
       /\ (epc # "off" /\ ~configured) => (StartCalls = {} /\ epc \notin {"tavus", "tavus_wait"})

C29_Witness ==
    /\ epc = "greeting"
    /\ config.tavus_api_key /\ ~config.persona_id /\ ~config.replica_id
    /\ ~use_tavus
    /\ Len(oplog) = 1
    /\ oplog[1].result = "plugins"
    /\ StartCalls = {}

\* C25: once the greeting is generated the entrypoint finishes only because it
\* found the room disconnected; it does not finish while the room is connected.
C25_EntrypointLifetime == epc = "finished" => entry_end = "disconnected"

\* The steps whose exception the entrypoint turns into an AgentError.
CriticalSteps == {"connect", "initialize_plugins", "session_start", "generate_reply"}

\* C26: when connect, initialize_plugins, session.start or generate_reply
\* raises, the entrypoint ends with an AgentError and runs nothing more: none of
\* the later steps has left a trace and no further step is taken.
C26_EntrypointErrorContract ==
    /\ [](entry_end \in CriticalSteps =>
            /\ epc = "failed"
            /\ iterations = 0
            /\ entry_end = "connect" => (oplog = <<>> /\ wrappers = <<>>)
            /\ entry_end = "initialize_plugins" => (Len(oplog) = 1 /\ ~use_tavus)
            /\ entry_end # "generate_reply" => (StartCalls = {} /\ audio = {} /\ ~tavus_active))
    /\ [][entry_end \notin CriticalSteps]_vars
    /\ [](epc = "failed" => entry_end \in CriticalSteps)

C26_Witness ==
    /\ epc = "failed"
    /\ entry_end = "session_start"
    /\ use_tavus
    /\ Len(oplog) = 1
    /\ StartCalls = {}

----------------------------------------------------------------------------
(* Type invariant *)

TypeOK ==
    /\ pos \in 0..Len(stream)
    /\ streamState \in {"open", "ended", "failed", "closed"}
    /\ last_sent_length \in 0..Len(accumulated_text)
    /\ pc \in {"idle", "anext_send", "stop_send", "aexit_send"}
    /\ config \in Configs
    /\ tavus_active \in BOOLEAN
    /\ tts_wrapper \in 0..Len(wrappers)
    /\ \A w \in 1..Len(wrappers) : wrappers[w] \in BOOLEAN
    /\ epc \in {"off", "plugins", "session_start", "tavus", "tavus_wait", "greet",
               "greeting", "keepalive", "finished", "failed"}
    /\ iterations \in 0..MaxIterations
    /\ \A k \in 1..2 :
          chat_wrappers[k].last_sent_length \in 0..Len(chat_wrappers[k].accumulated_text)
    /\ entry_end \in {"none", "connect", "initialize_plugins", "session_start",
                     "generate_reply", "disconnected", "loop_error"}

====
